---- MODULE Spec2Model ----
(***************************************************************************)
(* Model of the size-bounded LRU cache of src/lru/lru.go.                  *)
(*                                                                         *)
(* The cache is the struct LRUCache; every public method takes rwlock for  *)
(* its whole body, so under Spec each method is one atomic action; under   *)
(* ConcSpec and RaceSpec goroutines call the methods concurrently and the   *)
(* steps are the lock operations and the method bodies.  An *LRUItem is    *)
(* a record; the element handed to Put, Replace or returned by the         *)
(* producer is a freshly allocated item that is not stored in the cache    *)
(* under another key (as in every call of lru_test.go and README.md).      *)
(* elementListItem, the item's pointer into orderedItems, is the position  *)
(* of the item in the sequence orderedItems.                               *)
(***************************************************************************)
EXTENDS Integers, Sequences, FiniteSets, TLC

\* ---------------------------------------------------------------- bounds
MaxCap == 2
MaxItemSize == 3

Keys == {"k1", "k2", "k3"}
Values == {"v1"}
\* Size is a non-negative cost (spec.md, data model)
Sizes == 0..MaxItemSize
NewSizes == {-1, 0, MaxCap}
Amounts == -1..(MaxCap + 1)

NoKey == "nokey"
\* the nil *LRUItem
Nil == [Value |-> "nil", Size |-> 0, elementKey |-> NoKey]
\* items a caller or the producer can allocate: &LRUItem{Value: v, Size: s}
Elements == [Value : Values, Size : Sizes, elementKey : {NoKey}]

NoErr == ""
ErrSize == "Cache size must be greater than 0"
ErrExists == "Key already exists"

VARIABLES
  cache,          \* the *LRUCache returned by New (NilCache when New failed)
  newErr,         \* the error returned by New
  call,           \* the last public call: [name, key, element, size, predicate]
  ret,            \* what the last call returned: [item, err, ok, n]
  hookCalls,      \* onevict invocations of the last call, in order
  evictions,      \* items passed to evictElement by the last call, in order
  producerCalls,  \* keys passed to the producer by the last call, in order
  recency,        \* history: present keys by last use, most recent first
  rwlock,         \* the sync.RWMutex: [writer, readers]
  thread,         \* the calling goroutines: [pc, req, ret, pending, ...]
  reentrant       \* which callback calls back into the cache, if any

vars == <<cache, newErr, call, ret, hookCalls, evictions, producerCalls,
          recency, rwlock, thread, reentrant>>

\* the variables of the goroutines and of the lock
cvars == <<rwlock, thread, reentrant>>

\* ------------------------------------------------- container/list, map
PushFront(l, e) == <<e>> \o l

Back(l) == l[Len(l)]

InList(l, e) == \E i \in 1..Len(l) : l[i] = e

RemoveAt(l, i) == SubSeq(l, 1, i - 1) \o SubSeq(l, i + 1, Len(l))

\* Remove that unlinks the front element instead of e
Remove_Front(l, e) == IF InList(l, e) THEN Tail(l) ELSE l

\* list.Remove(e): unlinks e when e is an element of l, else does nothing
Remove(l, e) ==
  IF InList(l, e) THEN RemoveAt(l, CHOOSE i \in 1..Len(l) : l[i] = e) ELSE l

\* MoveToFront that leaves the element where it is
MoveToFront_Stay(l, e) == l

\* MoveToFront that moves the element to the back
MoveToFront_Back(l, e) == IF InList(l, e) THEN Remove(l, e) \o <<e>> ELSE l

\* list.MoveToFront(e)
MoveToFront(l, e) == IF InList(l, e) THEN <<e>> \o Remove(l, e) ELSE l

\* delete that leaves the entry in the map
MapDelete_Keep(m, k) == m

\* delete(m, k)
MapDelete(m, k) == [x \in (DOMAIN m) \ {k} |-> m[x]]

\* m[k] = v
MapSet(m, k, v) == [x \in (DOMAIN m) \cup {k} |-> IF x = k THEN v ELSE m[x]]

NoItems == [x \in {} |-> Nil]

\* ------------------------------------------------------------- the cache
NilCache == [maxSize |-> 0, currentSize |-> 0, orderedItems |-> <<>>,
             items |-> NoItems, producer |-> FALSE, onevict |-> FALSE]

\* New that rejects only negative sizes
New_AllowZero(maxSize, producer, onevict) ==
  IF maxSize < 0
  THEN [cache |-> NilCache, err |-> ErrSize]
  ELSE [cache |-> [maxSize |-> maxSize, currentSize |-> 0,
                   orderedItems |-> <<>>, items |-> NoItems,
                   producer |-> producer, onevict |-> onevict],
        err |-> NoErr]

\* New: the cache and the error it returns
New(maxSize, producer, onevict) ==
  IF maxSize <= 0
  THEN [cache |-> NilCache, err |-> ErrSize]
  ELSE [cache |-> [maxSize |-> maxSize, currentSize |-> 0,
                   orderedItems |-> <<>>, items |-> NoItems,
                   producer |-> producer, onevict |-> onevict],
        err |-> NoErr]

\* A run of a method body: the cache and the callbacks invoked so far.
Run(c) == [cache |-> c, hookCalls |-> <<>>, evictions |-> <<>>]

\* evictElement that forgets to give the size back
evictElement_KeepSize(st, element) ==
  [cache |-> [st.cache EXCEPT
                !.items = MapDelete(@, element.elementKey),
                !.orderedItems = Remove(@, element)],
   hookCalls |-> IF st.cache.onevict
                 THEN Append(st.hookCalls, <<element.elementKey, element>>)
                 ELSE st.hookCalls,
   evictions |-> Append(st.evictions, element)]

\* evictElement that never calls the hook
evictElement_NoHook(st, element) ==
  [cache |-> [st.cache EXCEPT
                !.currentSize = @ - element.Size,
                !.items = MapDelete(@, element.elementKey),
                !.orderedItems = Remove(@, element)],
   hookCalls |-> st.hookCalls,
   evictions |-> Append(st.evictions, element)]

evictElement(st, element) ==
  [cache |-> [st.cache EXCEPT
                !.currentSize = @ - element.Size,
                !.items = MapDelete(@, element.elementKey),
                !.orderedItems = Remove(@, element)],
   hookCalls |-> IF st.cache.onevict
                 THEN Append(st.hookCalls, <<element.elementKey, element>>)
                 ELSE st.hookCalls,
   evictions |-> Append(st.evictions, element)]

RECURSIVE evictAsNeeded(_)

\* evictAsNeeded with "if" for "for": at most one eviction
evictAsNeeded_Once(st) ==
  IF st.cache.currentSize > st.cache.maxSize /\ Len(st.cache.orderedItems) > 0
  THEN evictElement(st, Back(st.cache.orderedItems))
  ELSE st

\* evictAsNeeded that spares the last element left in the list
evictAsNeeded_KeepOne(st) ==
  IF st.cache.currentSize > st.cache.maxSize /\ Len(st.cache.orderedItems) > 1
  THEN evictAsNeeded(evictElement(st, Back(st.cache.orderedItems)))
  ELSE st

\* evictAsNeeded that also evicts when the cache is exactly full
evictAsNeeded_Eager(st) ==
  IF st.cache.currentSize >= st.cache.maxSize /\ Len(st.cache.orderedItems) > 0
  THEN evictAsNeeded(evictElement(st, Back(st.cache.orderedItems)))
  ELSE st

evictAsNeeded(st) ==
  IF st.cache.currentSize > st.cache.maxSize /\ Len(st.cache.orderedItems) > 0
  THEN evictAsNeeded(evictElement(st, Back(st.cache.orderedItems)))
  ELSE st

\* the element as putItem leaves it: elementKey set
Stored(key, element) == [element EXCEPT !.elementKey = key]

\* putItem that adds the element at the back of the list
pushItem_Back(st, key, element) ==
  [st EXCEPT !.cache.currentSize = @ + element.Size,
             !.cache.orderedItems = Append(@, Stored(key, element)),
             !.cache.items = MapSet(@, key, Stored(key, element))]

\* putItem up to its call of evictAsNeeded
pushItem(st, key, element) ==
  [st EXCEPT !.cache.currentSize = @ + element.Size,
             !.cache.orderedItems = PushFront(@, Stored(key, element)),
             !.cache.items = MapSet(@, key, Stored(key, element))]

putItem(st, key, element) == evictAsNeeded(pushItem(st, key, element))

EmptySpace == cache.maxSize - cache.currentSize

MaxSize == cache.maxSize

Has(key) == key \in DOMAIN cache.items

\* ---------------------------------------------------------------- history
Without(s, k) == SelectSeq(s, LAMBDA x : x # k)

\* key was used (inserted or hit): it becomes the most recent
Used(s, k) == <<k>> \o Without(s, k)

\* keys that are still present, in the order of s
Present(s, c) == SelectSeq(s, LAMBDA x : x \in DOMAIN c.items)

Finish(st, c, r, pcalls, rec) ==
  /\ cache' = st.cache
  /\ call' = c
  /\ ret' = r
  /\ hookCalls' = st.hookCalls
  /\ evictions' = st.evictions
  /\ producerCalls' = pcalls
  /\ recency' = Present(rec, st.cache)
  /\ UNCHANGED newErr

Call(name, key, element, size) ==
  [element |-> element, key |-> key, name |-> name, size |-> size,
   predicate |-> {}]

\* item and error results; ok is the bool result, n the int result
Ret(item, err) == [err |-> err, item |-> item, ok |-> FALSE, n |-> 0]

\* ------------------------------------------------- goroutines and lock
Threads == {"t1", "t2", "t3"}

NoCall == Call("none", NoKey, Nil, 0)

\* sync.RWMutex, unlocked
FreeLock == [writer |-> FALSE, readers |-> 0]

\* a goroutine that is not in a call.  once: it makes one call and keeps the
\* result; nested: it is inside a callback of a call that holds the lock;
\* produced: its call invoked the producer; pending: what the producer gave
IdleThread(once) ==
  [ret |-> Ret(Nil, NoErr), once |-> once, pc |-> "idle", req |-> NoCall,
   pending |-> Nil, produced |-> FALSE, nested |-> FALSE]

\* ---------------------------------------------------------------- actions
Init ==
  \E m \in NewSizes, p \in BOOLEAN, h \in BOOLEAN :
    /\ cache = New(m, p, h).cache
    /\ newErr = New(m, p, h).err
    /\ call = Call("New", NoKey, Nil, m)
    /\ ret = Ret(Nil, New(m, p, h).err)
    /\ hookCalls = <<>>
    /\ evictions = <<>>
    /\ producerCalls = <<>>
    /\ recency = <<>>
    /\ rwlock = FreeLock
    /\ thread = [t \in Threads |-> IdleThread(FALSE)]
    /\ reentrant = "no"

\* Get on a present key
GetHit(key) ==
  /\ newErr = NoErr
  /\ key \in DOMAIN cache.items
  /\ LET element == cache.items[key]
         st == [Run(cache) EXCEPT
                  !.cache.orderedItems = MoveToFront(@, element)]
     IN  Finish(st, Call("Get", key, Nil, 0), Ret(element, NoErr), <<>>,
                Used(recency, key))

\* produceItem that returns what the producer yields without storing it
GetMiss_NoInsert(key) ==
  /\ newErr = NoErr
  /\ key \notin DOMAIN cache.items
  /\ IF ~cache.producer
     THEN Finish(Run(cache), Call("Get", key, Nil, 0), Ret(Nil, NoErr), <<>>,
                 recency)
     ELSE \E element \in Elements \cup {Nil} :
            Finish(Run(cache), Call("Get", key, Nil, 0),
                   Ret(IF element = Nil THEN Nil ELSE Stored(key, element),
                       NoErr),
                   <<key>>, recency)

\* Get on an absent key: produceItem
GetMiss(key) ==
  /\ newErr = NoErr
  /\ key \notin DOMAIN cache.items
  /\ IF ~cache.producer
     THEN Finish(Run(cache), Call("Get", key, Nil, 0), Ret(Nil, NoErr), <<>>,
                 recency)
     ELSE \E element \in Elements \cup {Nil} :
            IF element = Nil
            THEN Finish(Run(cache), Call("Get", key, Nil, 0), Ret(Nil, NoErr),
                        <<key>>, recency)
            ELSE Finish(putItem(Run(cache), key, element),
                        Call("Get", key, Nil, 0),
                        Ret(Stored(key, element), NoErr),
                        <<key>>, Used(recency, key))

Get(key) == GetHit(key) \/ GetMiss(key)

\* Put without the check for an existing key
Put_Overwrite(key, element) ==
  /\ newErr = NoErr
  /\ Finish(putItem(Run(cache), key, element),
            Call("Put", key, element, 0), Ret(Nil, NoErr),
            <<>>, Used(recency, key))

Put(key, element) ==
  /\ newErr = NoErr
  /\ IF key \in DOMAIN cache.items
     THEN Finish(Run(cache), Call("Put", key, element, 0), Ret(Nil, ErrExists),
                 <<>>, recency)
     ELSE Finish(putItem(Run(cache), key, element),
                 Call("Put", key, element, 0), Ret(Nil, NoErr),
                 <<>>, Used(recency, key))

\* Replace that does not evict the old entry
Replace_NoEvict(key, element) ==
  /\ newErr = NoErr
  /\ Finish(putItem(Run(cache), key, element),
            Call("Replace", key, element, 0), Ret(Nil, NoErr),
            <<>>, Used(recency, key))

Replace(key, element) ==
  /\ newErr = NoErr
  /\ LET st == IF key \in DOMAIN cache.items
               THEN evictElement(Run(cache), cache.items[key])
               ELSE Run(cache)
     IN  Finish(putItem(st, key, element),
                Call("Replace", key, element, 0), Ret(Nil, NoErr),
                <<>>, Used(recency, key))

Evict(key) ==
  /\ newErr = NoErr
  /\ IF key \in DOMAIN cache.items
     THEN Finish(evictElement(Run(cache), cache.items[key]),
                 Call("Evict", key, Nil, 0), Ret(cache.items[key], NoErr),
                 <<>>, recency)
     ELSE Finish(Run(cache), Call("Evict", key, Nil, 0), Ret(Nil, NoErr),
                 <<>>, recency)

\* MakeRoom with the two adjustments of maxSize swapped
MakeRoom_Grow(size) ==
  /\ newErr = NoErr
  /\ LET st1 == [Run(cache) EXCEPT !.cache.maxSize = @ + size]
         st2 == evictAsNeeded(st1)
         st3 == [st2 EXCEPT !.cache.maxSize = @ - size]
     IN  Finish(st3, Call("MakeRoom", NoKey, Nil, size), Ret(Nil, NoErr),
                <<>>, recency)

\* MakeRoom that does not let the capacity go below zero
MakeRoom_Clamp(size) ==
  /\ newErr = NoErr
  /\ LET room == IF size > cache.maxSize THEN cache.maxSize ELSE size
         st1 == [Run(cache) EXCEPT !.cache.maxSize = @ - room]
         st2 == evictAsNeeded(st1)
         st3 == [st2 EXCEPT !.cache.maxSize = @ + room]
     IN  Finish(st3, Call("MakeRoom", NoKey, Nil, size), Ret(Nil, NoErr),
                <<>>, recency)

MakeRoom(size) ==
  /\ newErr = NoErr
  /\ LET st1 == [Run(cache) EXCEPT !.cache.maxSize = @ - size]
         st2 == evictAsNeeded(st1)
         st3 == [st2 EXCEPT !.cache.maxSize = @ + size]
     IN  Finish(st3, Call("MakeRoom", NoKey, Nil, size), Ret(Nil, NoErr),
                <<>>, recency)

\* All orders in which range can visit the keys of a map.
Orders(S) ==
  {o \in [1..Cardinality(S) -> S] : \A i, j \in 1..Cardinality(S) :
                                       o[i] = o[j] => i = j}

\* the range loop of EvictIf over the keys in iteration order; an entry
\* deleted before it is reached is not visited
RECURSIVE evictIfLoop(_, _, _)

\* the loop of EvictIf leaving after its first eviction
evictIfLoop_First(st, order, predicate) ==
  IF order = <<>>
  THEN st
  ELSE IF Head(order) \in DOMAIN st.cache.items /\ Head(order) \in predicate
       THEN evictElement(st, st.cache.items[Head(order)])
       ELSE evictIfLoop(st, Tail(order), predicate)

evictIfLoop(st, order, predicate) ==
  IF order = <<>>
  THEN st
  ELSE evictIfLoop(
         IF Head(order) \in DOMAIN st.cache.items /\ Head(order) \in predicate
         THEN evictElement(st, st.cache.items[Head(order)])
         ELSE st,
         Tail(order), predicate)

\* predicate is the set of keys for which the caller's predicate is true
EvictIf(predicate) ==
  /\ newErr = NoErr
  /\ \E order \in Orders(DOMAIN cache.items) :
       Finish(evictIfLoop(Run(cache), order, predicate),
              [Call("EvictIf", NoKey, Nil, 0) EXCEPT !.predicate = predicate],
              Ret(Nil, NoErr), <<>>, recency)

EmptySpaceCall ==
  /\ newErr = NoErr
  /\ Finish(Run(cache), Call("EmptySpace", NoKey, Nil, 0),
            [Ret(Nil, NoErr) EXCEPT !.n = cache.maxSize - cache.currentSize],
            <<>>, recency)

MaxSizeCall ==
  /\ newErr = NoErr
  /\ Finish(Run(cache), Call("MaxSize", NoKey, Nil, 0),
            [Ret(Nil, NoErr) EXCEPT !.n = cache.maxSize], <<>>, recency)

\* Has that counts as a use of the key
HasCall_Promote(key) ==
  /\ newErr = NoErr
  /\ LET st == IF key \in DOMAIN cache.items
               THEN [Run(cache) EXCEPT
                       !.cache.orderedItems = MoveToFront(@, cache.items[key])]
               ELSE Run(cache)
     IN  Finish(st, Call("Has", key, Nil, 0),
                [Ret(Nil, NoErr) EXCEPT !.ok = key \in DOMAIN cache.items],
                <<>>, recency)

HasCall(key) ==
  /\ newErr = NoErr
  /\ Finish(Run(cache), Call("Has", key, Nil, 0),
            [Ret(Nil, NoErr) EXCEPT !.ok = key \in DOMAIN cache.items],
            <<>>, recency)

\* ------------------------------------------------------- what a step did
RECURSIVE Reverse(_)
Reverse(s) == IF s = <<>> THEN <<>> ELSE Append(Reverse(Tail(s)), Head(s))

RECURSIVE SumSizes(_)
SumSizes(s) == IF s = <<>> THEN 0 ELSE Head(s).Size + SumSizes(Tail(s))

KeysOf(s) == [i \in 1..Len(s) |-> s[i].elementKey]

\* the step is a call that found its key present / absent
StepOn(name) == call'.name = name
WasPresent == call'.key \in DOMAIN cache.items

\* the step inserted an item: a successful Put, a Replace, a producing Get
Inserting ==
  \/ StepOn("Put") /\ ~WasPresent
  \/ StepOn("Replace")
  \/ StepOn("Get") /\ ~WasPresent /\ ret'.item # Nil

\* the item the step inserted, as stored
InsertedItem ==
  IF StepOn("Get") THEN ret'.item ELSE Stored(call'.key, call'.element)

\* the evictions of the step that were made for capacity: all of them but
\* the eviction of the old entry that Replace starts with
CapacityEvictions ==
  IF StepOn("Replace") /\ WasPresent /\ evictions' # <<>>
  THEN Tail(evictions')
  ELSE evictions'

\* ------------------------------------------------------------------ C1
\* C1: capacity eviction is strict LRU.  In every step that inserts an item
\* or is a MakeRoom, the items evicted for capacity are, from first to last
\* evicted, the keys from the least recently used upwards (last use = the
\* insertion or the latest Get hit, the inserted key being the most recent),
\* each evicted item is the one that was stored under its key, and the keys
\* that stay are exactly the more recently used ones.
LRUOrderStep ==
  (Inserting \/ StepOn("MakeRoom")) =>
    LET order == IF Inserting THEN Used(recency, call'.key) ELSE recency
        before == IF Inserting
                  THEN MapSet(cache.items, call'.key, InsertedItem)
                  ELSE cache.items
    IN  /\ order = recency' \o Reverse(KeysOf(CapacityEvictions))
        /\ \A i \in 1..Len(CapacityEvictions) :
             /\ CapacityEvictions[i].elementKey \in DOMAIN before
             /\ CapacityEvictions[i] =
                  before[CapacityEvictions[i].elementKey]

C1_StrictLRU == [][LRUOrderStep]_vars

\* a call evicted two items for capacity and kept a third
C1_Witness ==
  /\ call.name \in {"Put", "Get", "MakeRoom"}
  /\ Len(evictions) = 2
  /\ Len(cache.orderedItems) = 1

\* ------------------------------------------------------------------ C2
\* C2: between operations the occupied size never exceeds the capacity,
\* EmptySpace() >= 0, also after inserting an item larger than maxSize.
C2_WithinCapacity ==
  newErr = NoErr => (cache.currentSize <= cache.maxSize /\ EmptySpace >= 0)

\* an item larger than the capacity has just been inserted
C2_Witness ==
  /\ call.name = "Put"
  /\ ret.err = NoErr
  /\ call.element.Size > cache.maxSize
  /\ Len(evictions) = 3

\* ------------------------------------------------------------------ C3
\* C3: currentSize is the sum of Size over the items in the index, so
\* EmptySpace() = MaxSize() - (sum of the sizes of the present items).
RECURSIVE SumOver(_, _)
SumOver(m, S) ==
  IF S = {} THEN 0
  ELSE LET k == CHOOSE x \in S : TRUE IN m[k].Size + SumOver(m, S \ {k})

C3_SizeAccounting ==
  /\ cache.currentSize = SumOver(cache.items, DOMAIN cache.items)
  /\ EmptySpace = MaxSize - SumOver(cache.items, DOMAIN cache.items)

\* items were evicted and items of positive size remain
C3_Witness ==
  /\ Len(evictions) > 0
  /\ cache.currentSize > 0
  /\ Cardinality(DOMAIN cache.items) = 2

\* ------------------------------------------------------------------ C4
\* C4: Get on a present key returns the stored item, moves it to the front
\* of the recency order and changes nothing else; no callback runs.
GetHitStep ==
  (StepOn("Get") /\ WasPresent) =>
    /\ ret'.item = cache.items[call'.key]
    /\ cache'.items = cache.items
    /\ cache'.currentSize = cache.currentSize
    /\ cache'.maxSize = cache.maxSize
    /\ cache'.orderedItems =
         <<cache.items[call'.key]>> \o
           SelectSeq(cache.orderedItems,
                     LAMBDA e : e # cache.items[call'.key])
    /\ producerCalls' = <<>>
    /\ hookCalls' = <<>>
    /\ evictions' = <<>>

C4_GetHit == [][GetHitStep]_vars

\* a hit on a key with two other keys behind it
C4_Witness ==
  /\ call.name = "Get"
  /\ ret.item # Nil
  /\ producerCalls = <<>>
  /\ Len(cache.orderedItems) = 3
  /\ cache.orderedItems[1] = ret.item

\* ------------------------------------------------------------------ C5
\* the state describes a Get that the producer served with an item
Produced == call.name = "Get" /\ producerCalls # <<>> /\ ret.item # Nil

\* the step is a Get of the key that the call before it got
SameKeyGetFollows == StepOn("Get") /\ call'.key = call.key

\* C5 as stated: an item the producer yields for an absent key is in the
\* cache when Get returns, and a following Get of the same key is a hit that
\* returns the same item and does not invoke the producer.
C5_Original ==
  [][/\ (StepOn("Get") /\ ~WasPresent /\ ret'.item # Nil) =>
          (call'.key \in DOMAIN cache'.items
             /\ cache'.items[call'.key] = ret'.item)
     /\ (Produced /\ SameKeyGetFollows) =>
          (producerCalls' = <<>> /\ ret'.item = ret.item)]_vars

\* a Get on an absent key
GetMissStep ==
  (StepOn("Get") /\ ~WasPresent) =>
    /\ ~cache.producer =>
         (ret'.item = Nil /\ cache' = cache /\ producerCalls' = <<>>
            /\ hookCalls' = <<>> /\ evictions' = <<>>)
    /\ (cache.producer /\ ret'.item = Nil) =>
         (cache' = cache /\ producerCalls' = <<call'.key>>
            /\ hookCalls' = <<>> /\ evictions' = <<>>)
    /\ (cache.producer /\ ret'.item # Nil) =>
         /\ producerCalls' = <<call'.key>>
         /\ ret'.item.elementKey = call'.key
         /\ cache'.currentSize =
              cache.currentSize + ret'.item.Size - SumSizes(evictions')
         /\ cache'.currentSize <= cache'.maxSize
         /\ cache'.maxSize = cache.maxSize
         /\ ret'.item.Size <= cache.maxSize =>
              /\ call'.key \in DOMAIN cache'.items
              /\ cache'.items[call'.key] = ret'.item
              /\ Len(cache'.orderedItems) >= 1
              /\ cache'.orderedItems[1] = ret'.item
         /\ ret'.item.Size > cache.maxSize =>
              /\ call'.key \notin DOMAIN cache'.items
              /\ Len(evictions') >= 1
              /\ evictions'[Len(evictions')] = ret'.item

\* C5 (amended): Get on an absent key returns absent and changes nothing
\* when there is no producer or the producer yields nothing; an item the
\* producer yields is inserted at the front with its size accounted and the
\* eviction pass run, and returned; when its size is at most maxSize it is
\* present afterwards and a following Get of the key is a hit that returns
\* the same item without invoking the producer; when its size exceeds
\* maxSize it is evicted again within the same Get.
C5_GetMiss ==
  [][/\ GetMissStep
     /\ (Produced /\ ret.item.Size <= cache.maxSize /\ SameKeyGetFollows) =>
          (producerCalls' = <<>> /\ ret'.item = ret.item)]_vars

\* the producer served a Get with an item that fits, evicting another item
C5_Witness ==
  /\ Produced
  /\ ret.item.Size <= cache.maxSize
  /\ ret.item.Size > 0
  /\ Len(evictions) > 0
  /\ cache.orderedItems[1] = ret.item

\* ------------------------------------------------------------------ C6
\* C6: Put on a present key returns the duplicate-key error and changes
\* nothing (item, keys, currentSize, recency order; no hook); Put on an
\* absent key returns no error.
PutStep ==
  /\ (StepOn("Put") /\ WasPresent) =>
       /\ ret'.err = ErrExists
       /\ cache' = cache
       /\ hookCalls' = <<>>
       /\ evictions' = <<>>
       /\ producerCalls' = <<>>
  /\ (StepOn("Put") /\ ~WasPresent) => ret'.err = NoErr

C6_PutExisting == [][PutStep]_vars

\* a Put failed on a key that is not the most recently used one, with an
\* element that differs from the stored one
C6_Witness ==
  /\ call.name = "Put"
  /\ ret.err = ErrExists
  /\ Len(cache.orderedItems) >= 2
  /\ cache.orderedItems[1].elementKey # call.key
  /\ cache.items[call.key].Size # call.element.Size

\* ------------------------------------------------------------------ C7
\* C7 as stated: after Replace(key, item) the key is present and maps to
\* the new item.
C7_Original ==
  call.name = "Replace" =>
    /\ call.key \in DOMAIN cache.items
    /\ cache.items[call.key] = Stored(call.key, call.element)

ReplaceStep ==
  StepOn("Replace") =>
    /\ ret'.err = NoErr
    /\ call'.element.Size <= cache.maxSize =>
         /\ call'.key \in DOMAIN cache'.items
         /\ cache'.items[call'.key] = Stored(call'.key, call'.element)
         /\ Len(cache'.orderedItems) >= 1
         /\ cache'.orderedItems[1] = Stored(call'.key, call'.element)
    /\ call'.element.Size > cache.maxSize =>
         call'.key \notin DOMAIN cache'.items
    /\ WasPresent =>
         /\ Len(evictions') >= 1
         /\ evictions'[1] = cache.items[call'.key]
         /\ cache.onevict =>
              /\ Len(hookCalls') >= 1
              /\ hookCalls'[1] = <<call'.key, cache.items[call'.key]>>
         /\ \A i \in 2..Len(evictions') :
              evictions'[i] # cache.items[call'.key]
                \/ evictions'[i] = Stored(call'.key, call'.element)
    /\ ~WasPresent =>
         \A i \in 1..Len(evictions') :
           evictions'[i].elementKey # call'.key
             \/ evictions'[i] = Stored(call'.key, call'.element)

\* C7 (amended): after Replace(key, item) with item.Size <= maxSize the key
\* is present and maps to the new item, whether or not it was present
\* before, and a following Get(key) returns the new item; an item larger
\* than maxSize is evicted again within the call and the key is absent.
\* When the key was present its old entry is evicted first: the first
\* eviction and the first onEvict call of the Replace are the old entry's.
C7_Replace ==
  [][/\ ReplaceStep
     /\ (call.name = "Replace" /\ call.element.Size <= cache.maxSize
           /\ SameKeyGetFollows) =>
          (ret'.item = Stored(call.key, call.element)
             /\ producerCalls' = <<>>)]_vars

\* a Replace of a present key by a different item that fits, with a
\* capacity eviction after the old entry's
C7_Witness ==
  /\ call.name = "Replace"
  /\ Len(evictions) = 2
  /\ evictions[1].elementKey = call.key
  /\ evictions[1].Size # call.element.Size
  /\ evictions[2].elementKey # call.key
  /\ call.key \in DOMAIN cache.items

\* ------------------------------------------------------------------ C8
\* C8: Evict on a present key removes exactly that entry, reduces
\* currentSize by its size, calls onEvict once for it and returns it; the
\* other entries and their order are unchanged.  Evict on an absent key
\* returns absent, calls no hook and changes nothing.
EvictStep ==
  /\ (StepOn("Evict") /\ WasPresent) =>
       LET item == cache.items[call'.key]
       IN  /\ ret'.item = item
           /\ cache'.items = MapDelete(cache.items, call'.key)
           /\ cache'.currentSize = cache.currentSize - item.Size
           /\ cache'.maxSize = cache.maxSize
           /\ cache'.orderedItems =
                SelectSeq(cache.orderedItems, LAMBDA e : e # item)
           /\ Len(cache'.orderedItems) = Len(cache.orderedItems) - 1
           /\ evictions' = <<item>>
           /\ hookCalls' = IF cache.onevict THEN <<<<call'.key, item>>>>
                           ELSE <<>>
  /\ (StepOn("Evict") /\ ~WasPresent) =>
       /\ ret'.item = Nil
       /\ cache' = cache
       /\ hookCalls' = <<>>
       /\ evictions' = <<>>

C8_Evict == [][EvictStep]_vars

\* an Evict removed an item of positive size from between two others
C8_Witness ==
  /\ call.name = "Evict"
  /\ ret.item # Nil
  /\ ret.item.Size > 0
  /\ hookCalls = <<<<call.key, ret.item>>>>
  /\ Len(cache.orderedItems) = 2
  /\ recency = KeysOf(cache.orderedItems)

\* ------------------------------------------------------------------ C9
\* C9: EvictIf removes exactly the keys that were present and satisfy the
\* predicate: each of them is absent afterwards and was evicted once (one
\* onEvict call each), every other present key keeps its item and its
\* relative order, and currentSize drops by the sum of the removed sizes.
EvictIfStep ==
  StepOn("EvictIf") =>
    LET gone == DOMAIN cache.items \cap call'.predicate
    IN  /\ DOMAIN cache'.items = DOMAIN cache.items \ call'.predicate
        /\ \A k \in DOMAIN cache'.items : cache'.items[k] = cache.items[k]
        /\ cache'.orderedItems =
             SelectSeq(cache.orderedItems,
                       LAMBDA e : e.elementKey \notin call'.predicate)
        /\ Len(evictions') = Cardinality(gone)
        /\ \A k \in gone :
             \E i \in 1..Len(evictions') : evictions'[i] = cache.items[k]
        /\ cache.onevict =>
             /\ Len(hookCalls') = Cardinality(gone)
             /\ \A k \in gone :
                  \E i \in 1..Len(hookCalls') :
                    hookCalls'[i] = <<k, cache.items[k]>>
        /\ ~cache.onevict => hookCalls' = <<>>
        /\ cache'.currentSize = cache.currentSize - SumSizes(evictions')
        /\ cache'.maxSize = cache.maxSize
        /\ ret'.item = Nil

C9_EvictIf == [][EvictIfStep]_vars

\* an EvictIf removed the most and the least recently used of three keys
\* and kept the one between them
C9_Witness ==
  /\ call.name = "EvictIf"
  /\ Len(evictions) = 2
  /\ Len(hookCalls) = 2
  /\ Len(cache.orderedItems) = 1
  /\ call.predicate # Keys
  /\ cache.currentSize > 0

\* ----------------------------------------------------------------- C10
\* C10: after MakeRoom(amount) with 0 <= amount <= maxSize, EmptySpace() is
\* at least amount, the items removed are the least recently used ones in
\* LRU order, and MaxSize() is as before.
MakeRoomStep ==
  (StepOn("MakeRoom") /\ 0 <= call'.size /\ call'.size <= cache.maxSize) =>
    /\ EmptySpace' >= call'.size
    /\ MaxSize' = MaxSize
    /\ cache.orderedItems = cache'.orderedItems \o Reverse(evictions')
    /\ recency = recency' \o Reverse(KeysOf(evictions'))
    /\ \A k \in DOMAIN cache'.items : cache'.items[k] = cache.items[k]
    /\ DOMAIN cache'.items =
         DOMAIN cache.items \ {evictions'[i].elementKey :
                                 i \in 1..Len(evictions')}

C10_MakeRoom == [][MakeRoomStep]_vars

\* a MakeRoom evicted one item and kept one
C10_Witness ==
  /\ call.name = "MakeRoom"
  /\ call.size > 0
  /\ call.size <= cache.maxSize
  /\ Len(evictions) = 1
  /\ Len(cache.orderedItems) = 1
  /\ EmptySpace >= call.size

\* ----------------------------------------------------------------- C11
\* C11: an inserted item (Put, Replace, producing Get) whose size exceeds
\* maxSize is evicted within the same operation: it is the last item
\* evicted, onEvict is called for it, and when the operation returns the key
\* is absent and the item's size is not counted.
OversizedStep ==
  (Inserting /\ InsertedItem.Size > cache.maxSize) =>
    /\ Len(evictions') >= 1
    /\ evictions'[Len(evictions')] = InsertedItem
    /\ cache.onevict =>
         /\ Len(hookCalls') >= 1
         /\ hookCalls'[Len(hookCalls')] = <<call'.key, InsertedItem>>
    /\ call'.key \notin DOMAIN cache'.items
    /\ \A i \in 1..Len(cache'.orderedItems) :
         cache'.orderedItems[i] # InsertedItem
    /\ cache'.currentSize = SumOver(cache'.items, DOMAIN cache'.items)
    /\ cache'.currentSize <= cache.currentSize

C11_Oversized == [][OversizedStep]_vars

\* the producer yielded an item larger than maxSize and the hook saw it go
C11_Witness ==
  /\ Produced
  /\ ret.item.Size > cache.maxSize
  /\ Len(hookCalls) >= 2
  /\ hookCalls[Len(hookCalls)] = <<call.key, ret.item>>
  /\ call.key \notin DOMAIN cache.items

\* ----------------------------------------------------------------- C12
\* the entries the step had in the cache, the inserted one included
HeldInStep ==
  IF Inserting THEN MapSet(cache.items, call'.key, InsertedItem)
  ELSE cache.items

\* the keys whose entry left the cache for good in the step
LeftInStep == {k \in DOMAIN HeldInStep : k \notin DOMAIN cache'.items}

ReplacedOld == StepOn("Replace") /\ WasPresent

\* how often the hook was called with key k and item e in the step
HookCount(k, e) ==
  Cardinality({i \in 1..Len(hookCalls') : hookCalls'[i] = <<k, e>>})

\* C12: a configured onEvict hook is called exactly once, with key and
\* item, for every item that leaves the cache (capacity eviction after an
\* insert, MakeRoom, Evict, EvictIf, the old entry of a Replace), never for
\* an item that stays, and never by a Get hit, a failed Put or a read-only
\* query; without a hook nothing is called.
HookStep ==
  /\ ~cache.onevict => hookCalls' = <<>>
  /\ cache.onevict =>
       /\ Len(hookCalls') =
            Cardinality(LeftInStep) + (IF ReplacedOld THEN 1 ELSE 0)
       /\ \A k \in LeftInStep : HookCount(k, HeldInStep[k]) = 1
       /\ ReplacedOld =>
            /\ Len(hookCalls') >= 1
            /\ hookCalls'[1] = <<call'.key, cache.items[call'.key]>>
       /\ \A i \in 1..Len(hookCalls') :
            \/ hookCalls'[i][1] \in LeftInStep
            \/ ReplacedOld /\ i = 1
  /\ (\/ StepOn("Get") /\ WasPresent
      \/ StepOn("Put") /\ WasPresent
      \/ call'.name \in {"Has", "EmptySpace", "MaxSize"}) =>
       hookCalls' = <<>>

C12_HookOnce == [][HookStep]_vars

\* a Replace whose hook saw the old entry, another entry and the new,
\* oversized entry leave
C12_Witness ==
  /\ call.name = "Replace"
  /\ Len(hookCalls) = 3
  /\ hookCalls[1][1] = call.key
  /\ hookCalls[2][1] # call.key
  /\ hookCalls[3] = <<call.key, Stored(call.key, call.element)>>

\* ----------------------------------------------------------------- C15
\* C15: Has, EmptySpace and MaxSize change nothing (keys, items,
\* currentSize, maxSize, recency order) and call no callback; Has(key) is
\* true exactly when key is present and does not promote it; EmptySpace
\* returns maxSize - currentSize and MaxSize returns maxSize.
ReadOnlyStep ==
  (call'.name \in {"Has", "EmptySpace", "MaxSize"}) =>
    /\ cache' = cache
    /\ recency' = recency
    /\ hookCalls' = <<>>
    /\ evictions' = <<>>
    /\ producerCalls' = <<>>
    /\ StepOn("Has") => (ret'.ok <=> call'.key \in DOMAIN cache.items)
    /\ StepOn("EmptySpace") => ret'.n = cache.maxSize - cache.currentSize
    /\ StepOn("MaxSize") => ret'.n = cache.maxSize

C15_ReadOnly == [][ReadOnlyStep]_vars

\* Has found the least recently used of two keys and left it there
C15_Witness ==
  /\ call.name = "Has"
  /\ ret.ok
  /\ Len(cache.orderedItems) = 2
  /\ cache.orderedItems[2].elementKey = call.key

\* ----------------------------------------------------------------- C16
\* C16: New(maxSize, ...) returns a configuration error and no cache for
\* maxSize <= 0; for maxSize > 0 it returns no error and an empty cache
\* with EmptySpace() = MaxSize() = maxSize and Has(k) false for every k.
C16_New ==
  call.name = "New" =>
    /\ call.size <= 0 => (newErr = ErrSize /\ ret.err = ErrSize
                            /\ cache = NilCache)
    /\ call.size > 0 =>
         /\ newErr = NoErr
         /\ ret.err = NoErr
         /\ cache # NilCache
         /\ EmptySpace = call.size
         /\ MaxSize = call.size
         /\ cache.currentSize = 0
         /\ cache.orderedItems = <<>>
         /\ \A k \in Keys : ~Has(k)

\* New was called with size 0 and failed
C16_Witness ==
  /\ call.name = "New"
  /\ call.size = 0
  /\ newErr = ErrSize

\* ----------------------------------------------------------------- C17
\* C17: between operations index and list are consistent: same number of
\* entries, each indexed item is in the list exactly once, each list
\* element is the item indexed under its stored key, and each indexed
\* item's stored key is the key it is indexed under.
C17_IndexListConsistent ==
  /\ Len(cache.orderedItems) = Cardinality(DOMAIN cache.items)
  /\ \A k \in DOMAIN cache.items :
       /\ cache.items[k].elementKey = k
       /\ Cardinality({i \in 1..Len(cache.orderedItems) :
                         cache.orderedItems[i] = cache.items[k]}) = 1
  /\ \A i \in 1..Len(cache.orderedItems) :
       /\ cache.orderedItems[i].elementKey \in DOMAIN cache.items
       /\ cache.items[cache.orderedItems[i].elementKey] =
            cache.orderedItems[i]

\* three entries are indexed after a Replace evicted the old entry
C17_Witness ==
  /\ call.name = "Replace"
  /\ Len(evictions) = 1
  /\ Cardinality(DOMAIN cache.items) = 3
  /\ cache.orderedItems[1].elementKey = call.key

\* ----------------------------------------------------------------- C19
\* C19: MakeRoom(amount) with amount > maxSize evicts every present item in
\* LRU order and leaves the cache empty with currentSize 0; MaxSize() is
\* unchanged and EmptySpace() = maxSize, which is less than amount.
MakeRoomAllStep ==
  (StepOn("MakeRoom") /\ call'.size > cache.maxSize) =>
    /\ DOMAIN cache'.items = {}
    /\ cache'.orderedItems = <<>>
    /\ cache'.currentSize = 0
    /\ evictions' = Reverse(cache.orderedItems)
    /\ KeysOf(evictions') = Reverse(recency)
    /\ MaxSize' = MaxSize
    /\ EmptySpace' = MaxSize
    /\ EmptySpace' < call'.size

C19_MakeRoomAll == [][MakeRoomAllStep]_vars

\* a MakeRoom beyond the capacity evicted three items, one of size 0 last
C19_Witness ==
  /\ call.name = "MakeRoom"
  /\ call.size > cache.maxSize
  /\ Len(evictions) = 3
  /\ evictions[3].Size = 0
  /\ cache.orderedItems = <<>>

\* ------------------------------------------------ concurrent callers
\* the goroutines, keys, items and calls of the concurrent runs
ConcThreads == {"t1", "t2"}
ConcKeys == {"k1", "k2"}
ConcElements == {e \in Elements : e.Size \in {1, MaxItemSize}}
RaceKey == "k1"

ConcCalls ==
  {Call("Get", k, Nil, 0) : k \in ConcKeys}
    \cup {Call("Put", "k2", e, 0) : e \in ConcElements}
    \cup {Call("Replace", "k1", e, 0) : e \in ConcElements}
    \cup {Call("Evict", "k1", Nil, 0)}
    \cup {Call("MakeRoom", NoKey, Nil, a) : a \in {1, MaxCap + 1}}
    \cup {[Call("EvictIf", NoKey, Nil, 0) EXCEPT !.predicate = {"k2"}]}
    \cup {Call("Has", "k1", Nil, 0), Call("EmptySpace", NoKey, Nil, 0),
          Call("MaxSize", NoKey, Nil, 0)}

\* the calls a re-entering callback makes on the cache
InnerCalls == {Call("Has", "k1", Nil, 0), Call("Get", "k1", Nil, 0)}

\* Get taking the shared lock
LockKind_GetShared(name) ==
  IF name \in {"EmptySpace", "MaxSize", "Has", "Get"} THEN "R" ELSE "W"

\* Evict taking the shared lock
LockKind_EvictShared(name) ==
  IF name \in {"EmptySpace", "MaxSize", "Has", "Evict"} THEN "R" ELSE "W"

\* the lock a method takes: RLock ("R") or Lock ("W")
LockKind(name) ==
  IF name \in {"EmptySpace", "MaxSize", "Has"} THEN "R" ELSE "W"

\* rwlock.Lock() returns
CanLock == ~rwlock.writer /\ rwlock.readers = 0

\* RLock that does not wait for the writer
CanRLock_NoWait == TRUE

\* rwlock.RLock() returns
CanRLock == ~rwlock.writer

At(t, p) == thread[t].pc = p

\* the caller's goroutine moves on with the result of the body
Goto(t, p) == thread' = [thread EXCEPT ![t].pc = p, ![t].ret = ret']

\* a goroutine calls a method: it stands before Lock() or RLock()
Invoke(t, c) ==
  /\ At(t, "idle")
  /\ thread' = [thread EXCEPT ![t].pc = "lock", ![t].req = c,
                              ![t].ret = Ret(Nil, NoErr), ![t].pending = Nil,
                              ![t].produced = FALSE]
  /\ UNCHANGED <<cache, newErr, call, ret, hookCalls, evictions,
                 producerCalls, recency, rwlock, reentrant>>

\* rwlock.Lock() or rwlock.RLock() returns: the goroutine is inside
Acquire(t) ==
  /\ At(t, "lock")
  /\ IF LockKind(thread[t].req.name) = "W"
     THEN CanLock /\ rwlock' = [rwlock EXCEPT !.writer = TRUE]
     ELSE CanRLock /\ rwlock' = [rwlock EXCEPT !.readers = @ + 1]
  /\ thread' = [thread EXCEPT ![t].pc = "in"]
  /\ UNCHANGED <<cache, newErr, call, ret, hookCalls, evictions,
                 producerCalls, recency, reentrant>>

\* a method that returns without releasing the lock
Unlock_Held(t) ==
  /\ At(t, "unlock")
  /\ thread' = [thread EXCEPT
                  ![t] = IF @.once THEN [@ EXCEPT !.pc = "done"]
                         ELSE IdleThread(FALSE)]
  /\ UNCHANGED <<cache, newErr, call, ret, hookCalls, evictions,
                 producerCalls, recency, rwlock, reentrant>>

\* the deferred Unlock() or RUnlock(); the method returns
Unlock(t) ==
  /\ At(t, "unlock")
  /\ rwlock' = IF LockKind(thread[t].req.name) = "W"
               THEN [rwlock EXCEPT !.writer = FALSE]
               ELSE [rwlock EXCEPT !.readers = @ - 1]
  /\ thread' = [thread EXCEPT
                  ![t] = IF @.once THEN [@ EXCEPT !.pc = "done"]
                         ELSE IdleThread(FALSE)]
  /\ UNCHANGED <<cache, newErr, call, ret, hookCalls, evictions,
                 producerCalls, recency, reentrant>>

\* the cache as the body of call c has it just before its first call of
\* evictElement (pending: the item the producer gave to a Get)
BeforeEviction(c, pending) ==
  IF c.name = "Put" \/ c.name = "Get"
       \/ (c.name = "Replace" /\ c.key \notin DOMAIN cache.items)
  THEN pushItem(Run(cache), c.key,
                IF c.name = "Get" THEN pending ELSE c.element)
  ELSE IF c.name = "MakeRoom"
       THEN [Run(cache) EXCEPT !.cache.maxSize = @ - c.size]
       ELSE Run(cache)

\* the elements the body of call c can pass to its first evictElement
FirstVictims(c, pending) ==
  LET pre == BeforeEviction(c, pending).cache
      back == IF pre.currentSize > pre.maxSize /\ Len(pre.orderedItems) > 0
              THEN {Back(pre.orderedItems)}
              ELSE {}
  IN  IF c.name = "Evict" \/ c.name = "Replace"
      THEN IF c.key \in DOMAIN cache.items THEN {cache.items[c.key]}
           ELSE IF c.name = "Replace" THEN back ELSE {}
      ELSE IF c.name = "EvictIf"
           THEN {cache.items[k] : k \in DOMAIN cache.items \cap c.predicate}
           ELSE IF c.name = "Put"
                THEN IF c.key \in DOMAIN cache.items THEN {} ELSE back
                ELSE IF c.name = "MakeRoom"
                          \/ (c.name = "Get" /\ pending # Nil)
                     THEN back
                     ELSE {}

\* the body of t's call reaches an onevict that calls back into the cache
HookReenters(t) ==
  /\ reentrant = "onevict"
  /\ cache.onevict
  /\ FirstVictims(thread[t].req, thread[t].pending) # {}

\* Get on a present key
CGetHit(t) ==
  /\ At(t, "in")
  /\ thread[t].req.name = "Get"
  /\ GetHit(thread[t].req.key)
  /\ Goto(t, "unlock")
  /\ UNCHANGED <<rwlock, reentrant>>

\* Get on an absent key without producer
CGetNoProducer(t) ==
  /\ At(t, "in")
  /\ thread[t].req.name = "Get"
  /\ ~cache.producer
  /\ GetMiss(thread[t].req.key)
  /\ Goto(t, "unlock")
  /\ UNCHANGED <<rwlock, reentrant>>

\* produceItem: the producer is called and returns element
CProduce(t, element) ==
  /\ At(t, "in")
  /\ thread[t].req.name = "Get"
  /\ thread[t].req.key \notin DOMAIN cache.items
  /\ cache.producer
  /\ reentrant # "producer"
  /\ thread' = [thread EXCEPT ![t].pc = "produce", ![t].pending = element,
                              ![t].produced = TRUE]
  /\ call' = thread[t].req
  /\ producerCalls' = <<thread[t].req.key>>
  /\ hookCalls' = <<>>
  /\ evictions' = <<>>
  /\ UNCHANGED <<cache, newErr, ret, recency, rwlock, reentrant>>

\* produceItem after the producer returned: nil, or putItem and the element
CStore(t) ==
  /\ At(t, "produce")
  /\ ~HookReenters(t)
  /\ LET key == thread[t].req.key
         element == thread[t].pending
     IN  IF element = Nil
         THEN Finish(Run(cache), thread[t].req, Ret(Nil, NoErr), <<key>>,
                     recency)
         ELSE Finish(putItem(Run(cache), key, element), thread[t].req,
                     Ret(Stored(key, element), NoErr), <<key>>,
                     Used(recency, key))
  /\ Goto(t, "unlock")
  /\ UNCHANGED <<rwlock, reentrant>>

\* the bodies of Put, Replace, Evict and EvictIf
CBody(t) ==
  /\ At(t, "in")
  /\ ~HookReenters(t)
  /\ LET c == thread[t].req
     IN  \/ c.name = "Put" /\ Put(c.key, c.element)
         \/ c.name = "Replace" /\ Replace(c.key, c.element)
         \/ c.name = "Evict" /\ Evict(c.key)
         \/ c.name = "EvictIf" /\ EvictIf(c.predicate)
  /\ Goto(t, "unlock")
  /\ UNCHANGED <<rwlock, reentrant>>

\* MakeRoom: maxSize -= size and evictAsNeeded
CRoomBegin(t) ==
  /\ At(t, "in")
  /\ thread[t].req.name = "MakeRoom"
  /\ ~HookReenters(t)
  /\ Finish(evictAsNeeded([Run(cache) EXCEPT
                             !.cache.maxSize = @ - thread[t].req.size]),
            thread[t].req, Ret(Nil, NoErr), <<>>, recency)
  /\ Goto(t, "room")
  /\ UNCHANGED <<rwlock, reentrant>>

\* MakeRoom: maxSize += size
CRoomEnd(t) ==
  /\ At(t, "room")
  /\ cache' = [cache EXCEPT !.maxSize = @ + thread[t].req.size]
  /\ thread' = [thread EXCEPT ![t].pc = "unlock"]
  /\ UNCHANGED <<newErr, call, ret, hookCalls, evictions, producerCalls,
                 recency, rwlock, reentrant>>

\* the bodies of Has, EmptySpace and MaxSize
CRead(t) ==
  /\ At(t, "in")
  /\ LET c == thread[t].req
     IN  \/ c.name = "Has" /\ HasCall(c.key)
         \/ c.name = "EmptySpace" /\ EmptySpaceCall
         \/ c.name = "MaxSize" /\ MaxSizeCall
  /\ Goto(t, "unlock")
  /\ UNCHANGED <<rwlock, reentrant>>

\* the goroutine of t calls method inner from inside a callback: the call
\* of t that holds the lock waits for the callback to return
Reenter(t, inner) ==
  thread' = [thread EXCEPT ![t].pc = "lock", ![t].req = inner,
                           ![t].nested = TRUE]

\* a producer that calls back into the cache, with the lock released
\* around the producer
ProducerReenters_Unlocked(t, inner) ==
  /\ At(t, "in")
  /\ thread[t].req.name = "Get"
  /\ thread[t].req.key \notin DOMAIN cache.items
  /\ cache.producer
  /\ reentrant = "producer"
  /\ Reenter(t, inner)
  /\ rwlock' = [rwlock EXCEPT !.writer = FALSE]
  /\ call' = thread[t].req
  /\ producerCalls' = <<thread[t].req.key>>
  /\ hookCalls' = <<>>
  /\ evictions' = <<>>
  /\ UNCHANGED <<cache, newErr, ret, recency, reentrant>>

\* produceItem calls a producer that calls back into the cache
ProducerReenters(t, inner) ==
  /\ At(t, "in")
  /\ thread[t].req.name = "Get"
  /\ thread[t].req.key \notin DOMAIN cache.items
  /\ cache.producer
  /\ reentrant = "producer"
  /\ Reenter(t, inner)
  /\ call' = thread[t].req
  /\ producerCalls' = <<thread[t].req.key>>
  /\ hookCalls' = <<>>
  /\ evictions' = <<>>
  /\ UNCHANGED <<cache, newErr, ret, recency, rwlock, reentrant>>

\* a body runs up to its first evictElement, whose onevict calls back into
\* the cache
HookReentry(t, inner) ==
  /\ At(t, "in") \/ At(t, "produce")
  /\ At(t, "in") => thread[t].req.name # "Get"
  /\ HookReenters(t)
  /\ \E victim \in FirstVictims(thread[t].req, thread[t].pending) :
       LET c == thread[t].req
           pre == BeforeEviction(c, thread[t].pending)
           st == evictElement(pre, victim)
       IN  /\ cache' = st.cache
           /\ hookCalls' = st.hookCalls
           /\ evictions' = st.evictions
           /\ call' = c
           /\ producerCalls' = IF At(t, "produce") THEN <<c.key>> ELSE <<>>
           /\ recency' =
                Present(IF c.key \in DOMAIN pre.cache.items
                             /\ c.key \notin DOMAIN cache.items
                        THEN Used(recency, c.key) ELSE recency, st.cache)
  /\ Reenter(t, inner)
  /\ UNCHANGED <<newErr, ret, rwlock, reentrant>>

\* New(MaxCap, ...) and idle goroutines
ConcInit ==
  \E p \in BOOLEAN, h \in BOOLEAN, r \in {"no", "producer", "onevict"} :
    /\ r = "producer" => p
    /\ r = "onevict" => h
    /\ cache = New(MaxCap, p, h).cache
    /\ newErr = New(MaxCap, p, h).err
    /\ call = Call("New", NoKey, Nil, MaxCap)
    /\ ret = Ret(Nil, New(MaxCap, p, h).err)
    /\ hookCalls = <<>>
    /\ evictions = <<>>
    /\ producerCalls = <<>>
    /\ recency = <<>>
    /\ rwlock = FreeLock
    /\ thread = [t \in Threads |-> IdleThread(FALSE)]
    /\ reentrant = r

ConcNext ==
  \E t \in ConcThreads :
    \/ \E c \in ConcCalls : Invoke(t, c)
    \/ Acquire(t)
    \/ CGetHit(t)
    \/ CGetNoProducer(t)
    \/ \E element \in ConcElements \cup {Nil} : CProduce(t, element)
    \/ CStore(t)
    \/ CBody(t)
    \/ CRoomBegin(t)
    \/ CRoomEnd(t)
    \/ CRead(t)
    \/ \E inner \in InnerCalls : ProducerReenters(t, inner)
    \/ \E inner \in InnerCalls : HookReentry(t, inner)
    \/ Unlock(t)

ConcSpec == ConcInit /\ [][ConcNext]_vars

\* a step of the body of t's call, its callbacks included
Body(t) ==
  \/ CGetHit(t)
  \/ CGetNoProducer(t)
  \/ \E element \in ConcElements \cup {Nil} : CProduce(t, element)
  \/ CStore(t)
  \/ CBody(t)
  \/ CRoomBegin(t)
  \/ CRoomEnd(t)
  \/ CRead(t)

\* a goroutine that can take a step of a body or return takes it (the
\* callbacks return); a goroutine that waits for the lock gets it when the
\* lock is free again and again (the guard is fair)
Fairness ==
  \A t \in ConcThreads :
    /\ WF_vars(Body(t))
    /\ WF_vars(Unlock(t))
    /\ SF_vars(Acquire(t))

\* one call of every public method
FairCalls ==
  {Call("Get", "k1", Nil, 0),
   Call("Put", "k2", CHOOSE e \in ConcElements : e.Size = 1, 0),
   Call("Replace", "k1", CHOOSE e \in ConcElements : e.Size = MaxItemSize, 0),
   Call("Evict", "k1", Nil, 0),
   Call("MakeRoom", NoKey, Nil, MaxCap + 1),
   [Call("EvictIf", NoKey, Nil, 0) EXCEPT !.predicate = {"k2"}],
   Call("Has", "k1", Nil, 0),
   Call("EmptySpace", NoKey, Nil, 0),
   Call("MaxSize", NoKey, Nil, 0)}

\* New(MaxCap, ...) with callbacks that return without calling the cache
FairInit ==
  \E p \in BOOLEAN :
    /\ cache = New(MaxCap, p, TRUE).cache
    /\ newErr = New(MaxCap, p, TRUE).err
    /\ call = Call("New", NoKey, Nil, MaxCap)
    /\ ret = Ret(Nil, New(MaxCap, p, TRUE).err)
    /\ hookCalls = <<>>
    /\ evictions = <<>>
    /\ producerCalls = <<>>
    /\ recency = <<>>
    /\ rwlock = FreeLock
    /\ thread = [t \in Threads |-> IdleThread(FALSE)]
    /\ reentrant = "no"

FairNext ==
  \E t \in ConcThreads :
    \/ \E c \in FairCalls : Invoke(t, c)
    \/ Acquire(t)
    \/ Body(t)
    \/ Unlock(t)

FairSpec == FairInit /\ [][FairNext]_vars /\ Fairness

\* New(MaxCap, producer, ...): every goroutine calls Get(RaceKey) once
RaceInit ==
  \E h \in BOOLEAN :
    /\ cache = New(MaxCap, TRUE, h).cache
    /\ newErr = New(MaxCap, TRUE, h).err
    /\ call = Call("New", NoKey, Nil, MaxCap)
    /\ ret = Ret(Nil, New(MaxCap, TRUE, h).err)
    /\ hookCalls = <<>>
    /\ evictions = <<>>
    /\ producerCalls = <<>>
    /\ recency = <<>>
    /\ rwlock = FreeLock
    /\ thread = [t \in Threads |-> IdleThread(TRUE)]
    /\ reentrant = "no"

RaceNext ==
  \E t \in Threads :
    \/ Invoke(t, Call("Get", RaceKey, Nil, 0))
    \/ Acquire(t)
    \/ CGetHit(t)
    \/ \E element \in Elements : CProduce(t, element)
    \/ CStore(t)
    \/ Unlock(t)

RaceSpec == RaceInit /\ [][RaceNext]_vars

\* ----------------------------------------------------------------- C13
\* the goroutines whose call invoked the producer
Producers == {t \in Threads : thread[t].produced}

\* the goroutines whose call has run its body
Served == {t \in Threads : thread[t].pc \in {"unlock", "done"}}

\* C13 as stated: however many goroutines call Get(k) concurrently for an
\* absent k, the producer is invoked at most once for k.
C13_Original == Cardinality(Producers) <= 1

\* C13 (amended): for concurrent callers of Get(k) on an absent k and a
\* producer that yields for k an item of size at most maxSize, the producer
\* is invoked at most once: the first caller to hold the lock invokes it and
\* inserts the item, every later caller finds k present and returns the same
\* item without invoking the producer.
C13_ProducerOnce ==
  (\A t \in Producers : thread[t].pending.Size <= cache.maxSize) =>
    /\ Cardinality(Producers) <= 1
    /\ \A t, u \in Served : thread[t].ret.item = thread[u].ret.item
    /\ \A t \in Served :
         /\ thread[t].ret.item # Nil
         /\ RaceKey \in DOMAIN cache.items
         /\ cache.items[RaceKey] = thread[t].ret.item
         /\ t \notin Producers => thread[t].pending = Nil

\* three callers have returned the item that one of them made the producer
\* yield
C13_Witness ==
  /\ \A t \in Threads : thread[t].pc = "done"
  /\ Cardinality(Producers) = 1
  /\ \A t \in Threads : thread[t].ret.item = cache.items[RaceKey]
  /\ cache.currentSize > 0

\* ----------------------------------------------------------------- C14
Mutators == {"Get", "Put", "Replace", "Evict", "EvictIf", "MakeRoom"}
Readers == {"Has", "EmptySpace", "MaxSize"}

\* the goroutine is in the critical section of a mutating method
InsideW(t) ==
  \/ thread[t].nested
  \/ /\ thread[t].pc \in {"in", "produce", "room", "unlock"}
     /\ thread[t].req.name \in Mutators

\* the goroutine is in the critical section of a read-only method
InsideR(t) ==
  /\ ~thread[t].nested
  /\ thread[t].pc \in {"in", "unlock"}
  /\ thread[t].req.name \in Readers

\* t takes a step of a method body (callbacks included)
BodyStep(t) ==
  /\ thread[t].pc \in {"in", "produce", "room"}
  /\ thread'[t] # thread[t]

Exclusion ==
  /\ Cardinality({t \in Threads : InsideW(t)}) <= 1
  /\ (\E t \in Threads : InsideW(t)) => ~(\E u \in Threads : InsideR(u))

\* C14: at most one of Get, Put, Replace, Evict, EvictIf, MakeRoom is in
\* its critical section at a time and none while a Has, EmptySpace or
\* MaxSize is in its own; every body step of a mutating method, a Get hit,
\* the producer and onevict included, is taken with the exclusive lock
\* held, every body step of a read-only method with the shared lock held.
C14_Exclusion ==
  /\ []Exclusion
  /\ [][\A t \in Threads :
          /\ (BodyStep(t) /\ thread[t].req.name \in Mutators) =>
               (rwlock.writer /\ rwlock.readers = 0)
          /\ (BodyStep(t) /\ thread[t].req.name \in Readers) =>
               (~rwlock.writer /\ rwlock.readers >= 1)]_vars

\* two read-only calls are inside at the same time
C14_Witness ==
  /\ rwlock.readers = 2
  /\ \A t \in ConcThreads : InsideR(t)

\* ----------------------------------------------------------------- C18
\* C18: a goroutine whose producer or onevict calls a method of the same
\* cache never acquires the lock for the inner call: it stays before the
\* inner Lock()/RLock() for ever, the outer call keeps the exclusive lock,
\* and no other goroutine acquires the lock either.
C18_ReentryDeadlocks ==
  /\ [](\A t \in Threads :
          thread[t].nested => (thread[t].pc = "lock" /\ rwlock.writer))
  /\ [][\A t \in Threads :
          thread[t].nested =>
            /\ thread'[t] = thread[t]
            /\ rwlock' = rwlock
            /\ \A u \in Threads :
                 thread[u].pc = "lock" => thread'[u].pc = "lock"]_vars

\* onevict called Has from inside an Evict while another goroutine waits
\* for the lock
C18_Witness ==
  /\ reentrant = "onevict"
  /\ \E t, u \in ConcThreads :
       /\ thread[t].nested
       /\ thread[t].req.name = "Has"
       /\ call.name = "Evict"
       /\ Len(hookCalls) = 1
       /\ ~thread[u].nested
       /\ thread[u].pc = "lock"

\* ----------------------------------------------------------------- C20
\* C20: the capacity is never resized: every MaxSize() call returns the
\* value given to New and every EmptySpace() call that value minus the
\* occupied size, also when MakeRoom runs concurrently; maxSize differs
\* from the value given to New only while a MakeRoom holds the exclusive
\* lock.
C20_CapacityFixed ==
  /\ \A t \in Threads :
       (thread[t].pc = "unlock" /\ ~thread[t].nested) =>
         /\ thread[t].req.name = "MaxSize" => thread[t].ret.n = MaxCap
         /\ thread[t].req.name = "EmptySpace" =>
              thread[t].ret.n = MaxCap - cache.currentSize
  /\ cache.maxSize # MaxCap =>
       /\ rwlock.writer
       /\ rwlock.readers = 0
       /\ call.name = "MakeRoom"
       /\ \E t \in Threads : thread[t].pc = "room" \/ thread[t].nested
  /\ ~rwlock.writer => cache.maxSize = MaxCap

\* MaxSize() waits for the lock while MakeRoom has the capacity reduced
C20_Witness ==
  \E t, u \in ConcThreads :
    /\ thread[t].pc = "room"
    /\ cache.maxSize < MaxCap
    /\ Len(evictions) > 0
    /\ thread[u].pc = "lock"
    /\ thread[u].req.name = "MaxSize"

\* ----------------------------------------------------------------- C21
\* the step runs evictAsNeeded: after an insertion or inside MakeRoom
EvictionPass == Inserting \/ StepOn("MakeRoom")

\* currentSize and maxSize as evictAsNeeded finds them in the step
PassStart ==
  IF StepOn("MakeRoom") THEN cache.currentSize
  ELSE cache.currentSize + InsertedItem.Size
         - (IF StepOn("Replace") /\ WasPresent
            THEN cache.items[call'.key].Size ELSE 0)

PassCapacity ==
  IF StepOn("MakeRoom") THEN cache.maxSize - call'.size ELSE cache.maxSize

\* currentSize after the first n capacity evictions of the step
PassSizeAfter(n) == PassStart - SumSizes(SubSeq(CapacityEvictions, 1, n))

\* every capacity eviction found currentSize above the capacity, and the
\* consequences for calls that fit
MinimalPassStep ==
  /\ EvictionPass =>
       /\ \A i \in 1..Len(CapacityEvictions) :
            PassSizeAfter(i - 1) > PassCapacity
       /\ cache'.currentSize = PassSizeAfter(Len(CapacityEvictions))
       /\ cache'.currentSize <= PassCapacity \/ cache'.orderedItems = <<>>
  /\ (Inserting /\ InsertedItem.Size <= EmptySpace) =>
       CapacityEvictions = <<>>
  /\ (StepOn("MakeRoom") /\ EmptySpace >= call'.size) => evictions' = <<>>

\* the call is a Put that directly follows a MakeRoom(n), its item of size
\* at most n
PutAfterMakeRoom ==
  /\ call.name = "MakeRoom"
  /\ StepOn("Put")
  /\ call'.element.Size <= call.size

\* C21 as stated: capacity eviction is minimal, and after MakeRoom(n), for
\* any n, a Put of an item of size <= n evicts nothing.
C21_Original ==
  [][MinimalPassStep /\ (PutAfterMakeRoom => evictions' = <<>>)]_vars

\* C21 (amended): an eviction pass (after an insertion or inside MakeRoom)
\* evicts an item only if currentSize exceeded the effective capacity
\* immediately before that eviction, and stops at the first point where
\* currentSize <= effective capacity or the list is empty.  Inserting an
\* item of size <= EmptySpace() evicts nothing for capacity, MakeRoom(n)
\* with EmptySpace() >= n evicts nothing, and after MakeRoom(n) with
\* n <= maxSize a Put of an item of size <= n evicts nothing.
C21_Minimal ==
  [][/\ MinimalPassStep
     /\ (PutAfterMakeRoom /\ call.size <= cache.maxSize) =>
          evictions' = <<>>]_vars

\* a Put into a full cache of two items evicted one of them and stopped
C21_Witness ==
  /\ call.name = "Put"
  /\ ret.err = NoErr
  /\ Len(evictions) = 1
  /\ Len(cache.orderedItems) = 2
  /\ cache.currentSize = cache.maxSize
  /\ call.key \in DOMAIN cache.items

\* ----------------------------------------------------------------- C22
\* the step inserted an item larger than maxSize into a non-empty cache
OversizedIntoNonEmpty ==
  /\ Inserting
  /\ InsertedItem.Size > cache.maxSize
  /\ cache.orderedItems # <<>>

\* the cache is empty and the call reports success
EmptiedWithSuccess ==
  /\ cache'.orderedItems = <<>>
  /\ cache'.items = NoItems
  /\ cache'.currentSize = 0
  /\ call'.key \notin DOMAIN cache'.items
  /\ ret'.err = NoErr
  /\ StepOn("Get") =>
       /\ ret'.item = Stored(call'.key, ret'.item)
       /\ ret'.item.Size > cache.maxSize
       /\ producerCalls' = <<call'.key>>
  /\ cache.onevict =>
       hookCalls' = [i \in 1..Len(evictions') |->
                      <<evictions'[i].elementKey, evictions'[i]>>]

\* C22 as stated: every item present before the call is evicted in LRU
\* order, then the inserted item; the cache is empty and the call reports
\* success.
C22_Original ==
  [][OversizedIntoNonEmpty =>
       /\ evictions' = Reverse(cache.orderedItems) \o <<InsertedItem>>
       /\ KeysOf(evictions') = Reverse(recency) \o <<call'.key>>
       /\ EmptiedWithSuccess]_vars

\* C22 (amended): inserting an item whose size exceeds maxSize (by Put,
\* Replace or a producing Get) into a non-empty cache evicts, for a Replace
\* on a present key, the old entry of that key first whatever its recency,
\* then every item under another key in LRU order, and the inserted item
\* last; the cache is left empty with currentSize 0, and the operation
\* reports success (Put and Replace return no error, Get returns the
\* produced item) although the key is absent afterwards.
C22_OversizedEmpties ==
  [][OversizedIntoNonEmpty =>
       LET old == IF StepOn("Replace") /\ WasPresent
                  THEN <<cache.items[call'.key]>> ELSE <<>>
           others == SelectSeq(cache.orderedItems,
                               LAMBDA e : e.elementKey # call'.key)
       IN  /\ evictions' = old \o Reverse(others) \o <<InsertedItem>>
           /\ KeysOf(Reverse(others)) = Reverse(Without(recency, call'.key))
           /\ EmptiedWithSuccess]_vars

\* a Replace with an item larger than maxSize evicted the old entry, the
\* other item and the new item, and returned no error
C22_Witness ==
  /\ call.name = "Replace"
  /\ ret.err = NoErr
  /\ call.element.Size > cache.maxSize
  /\ Len(evictions) = 3
  /\ evictions[1].elementKey = call.key
  /\ evictions[2].elementKey # call.key
  /\ evictions[3] = Stored(call.key, call.element)
  /\ cache.orderedItems = <<>>
  /\ cache.currentSize = 0

\* ----------------------------------------------------------------- C23
\* t's call runs its eviction loop (and the evictions before it) to the end
LoopStep(t) ==
  /\ thread[t].pc \in {"in", "produce"}
  /\ thread'[t].pc \in {"unlock", "room"}
  /\ call' = thread[t].req

\* the list elements the loop of t's call can remove: the present items and
\* the item the call inserts
Removable(t) ==
  Len(cache.orderedItems)
    + (IF \/ thread[t].pc = "produce" /\ thread[t].pending # Nil
          \/ thread[t].req.name = "Replace"
          \/ thread[t].req.name = "Put"
               /\ thread[t].req.key \notin DOMAIN cache.items
       THEN 1 ELSE 0)

\* the loop removed one list element per iteration and stopped with the
\* list empty or currentSize <= maxSize
BoundedLoop(t) ==
  /\ Len(evictions') <= Removable(t)
  /\ Len(cache'.orderedItems) = Removable(t) - Len(evictions')
  /\ cache'.orderedItems = <<>> \/ cache'.currentSize <= cache'.maxSize

\* C23: with callbacks that return and do not call back into the cache,
\* every call that holds the lock returns and releases it, the eviction
\* loop running at most as many iterations as there are items, and under a
\* fair lock every caller that waits for the lock completes its call.
C23_Terminates ==
  /\ \A t \in ConcThreads :
       (reentrant = "no" /\ thread[t].pc # "idle") ~> thread[t].pc = "idle"
  /\ [][\A t \in ConcThreads : LoopStep(t) => BoundedLoop(t)]_vars

\* a MakeRoom has evicted both items and is about to return while another
\* caller waits for the lock
C23_Witness ==
  /\ reentrant = "no"
  /\ \E t, u \in ConcThreads :
       /\ thread[t].pc = "unlock"
       /\ thread[t].req.name = "MakeRoom"
       /\ call = thread[t].req
       /\ Len(evictions) = 2
       /\ cache.orderedItems = <<>>
       /\ rwlock.writer
       /\ thread[u].pc = "lock"

Next ==
  \/ \E key \in Keys : Get(key) /\ UNCHANGED cvars
  \/ \E key \in Keys, element \in Elements :
       Put(key, element) /\ UNCHANGED cvars
  \/ \E key \in Keys, element \in Elements :
       Replace(key, element) /\ UNCHANGED cvars
  \/ \E key \in Keys : Evict(key) /\ UNCHANGED cvars
  \/ \E size \in Amounts : MakeRoom(size) /\ UNCHANGED cvars
  \/ \E predicate \in SUBSET Keys : EvictIf(predicate) /\ UNCHANGED cvars
  \/ EmptySpaceCall /\ UNCHANGED cvars
  \/ MaxSizeCall /\ UNCHANGED cvars
  \/ \E key \in Keys : HasCall(key) /\ UNCHANGED cvars

Spec == Init /\ [][Next]_vars
====
